---- MODULE Spec2Model ----
(***************************************************************************)
(* A model of the halmos driver (src/src/halmos/__main__.py): setup, run   *)
(* (calldata construction, classification of the terminal states, the      *)
(* verdict), gen_model (the counterexample pipeline), is_valid_model and    *)
(* main (the loop over contracts and test functions).                      *)
(*                                                                         *)
(* The symbolic interpreter (sevm: SEVM.run, Exec, wstore) and the solver   *)
(* (z3) are not part of the file; the terminal states the explorer returns *)
(* and the answers of the solver are inputs, drawn from bounded sets.       *)
(*                                                                         *)
(* Strings the code inspects by character (startswith) are sequences of    *)
(* one-character strings.                                                  *)
(***************************************************************************)
EXTENDS Integers, Sequences, FiniteSets, TLC

VARIABLES
    \* ---- run: classification of the terminal states and the verdict
    exs,            \* the terminal states returned by sevm.run        (l.245)
    subproc,        \* args.solver_subprocess
    idx,            \* number of terminal states already classified    (l.278)
    normal,         \* l.275
    models,         \* l.276: list of (model or None, idx)
    stuck,          \* l.277: list of (opcode, idx)
    rpc,            \* position in run: "loop", "done"
    exitcode,       \* value returned by run (-1: not returned yet)
    printed,        \* the result lines printed at l.302-311
    gmCalls,        \* history: the idx of every call of gen_model
    lastGm,         \* history: summary of the last call of gen_model
    \* ---- main and setup
    files,          \* compilation units: list of files, each a list of contracts
    argFunction,    \* args.function
    argContract,    \* args.contract (None when not given)
    fi, ci, ti,     \* loop positions: file, contract in file, test in contract
    mpc,            \* position in main
    num_passed, num_failed, total_passed, total_failed,
    mainExit,       \* value returned by main (-1: not returned yet)
    setupExs,       \* history: what the explorer returned for setUp() of the current contract
    ranLog,         \* history: (file, contract, funsig, exitcode) of every call of run
    \* ---- run: calldata construction
    abi,            \* the ABI of the contract: list of entries
    target,         \* position in abi of the entry of the tested signature
    funname, funselector, arrlen, argLoop,
    ai,             \* number of ABI entries already visited           (l.167)
    cd,             \* the calldata bytes written so far (others are cd(i))
    dyn_param_size, \* l.165
    cdpc,           \* "build", "built", "raised"
    cdErr,          \* the ValueError raised, if any
    \* ---- run: the Exec handed to the explorer, over a heap of mutable objects
    heap,           \* owner ("setup", "test") -> field -> value
    tex,            \* the Exec of the running test
    ipc,            \* "idle", "running"
    postSetup,      \* history: the values of setup_ex's fields when setup returned
    testNo,         \* number of tests started
    nsteps          \* steps the explorer has made in the running test

runVars  == <<exs, subproc, idx, normal, models, stuck, rpc, exitcode, printed, gmCalls, lastGm>>
mainVars == <<files, argFunction, argContract, fi, ci, ti, mpc, num_passed, num_failed,
              total_passed, total_failed, mainExit, setupExs, ranLog>>
cdVars   == <<abi, target, funname, funselector, arrlen, argLoop, ai, cd, dyn_param_size,
              cdpc, cdErr>>
isoVars  == <<heap, tex, ipc, postSetup, testNo, nsteps>>
vars     == <<runVars, mainVars, cdVars, isoVars>>

None == "None"

\* ---------------------------------------------------------------- bounds
MaxExs == 2

\* ---------------------------------------------------------------- strings
\* str.startswith
startswith(s, p) == Len(s) >= Len(p) /\ SubSeq(s, 1, Len(p)) = p

\* byte i (0: the most significant) of a number of magnitude below 2^24 in a
\* big-endian word of `size` bytes (two's complement for a negative number)
ByteOf(v, size, i) ==
    IF size - 1 - i >= 3 THEN (IF v < 0 THEN 255 ELSE 0)
    ELSE (v \div (256 ^ (size - 1 - i))) % 256

WordBytes(v, size) == [i \in 1..size |-> ByteOf(v, size, i - 1)]

\* ---------------------------------------------------------------- terminal states
\* l.287: int('4e487b71' + '00..01', 16), as its 36 bytes
PanicSelector == <<78, 72, 123, 113>>
PanicCode == PanicSelector \o WordBytes(1, 32)

\* Panic(0x11), arithmetic overflow: another 36-byte panic encoding
PanicOverflow == PanicSelector \o WordBytes(17, 32)

Opcodes == {"STOP", "RETURN", "REVERT", "INVALID"}
\* ex.output is None when the state returned no data: the empty sequence here
NoOutput == <<>>
Outputs == {NoOutput, PanicCode, PanicOverflow}
\* only RETURN and REVERT set an output
Terminals ==
    {t \in [op : Opcodes, failed : BOOLEAN, output : Outputs] :
        t.op \in {"RETURN", "REVERT"} \/ t.output = NoOutput}

\* ---------------------------------------------------------------- solver
sat == "sat"
unsat == "unsat"
unknown == "unknown"

\* a model is the set of the names of its declarations; a value that may be None
\* is <<>> for None and <<v>> for v
NoModel == <<>>
DeclP   == <<"p", "_", "x">>
DeclMsg == <<"m", "s", "g", "_", "v">>
DeclDiv == <<"e", "v", "m", "_", "b", "v", "u", "d", "i", "v">>
Models == { {DeclP, DeclMsg}, {DeclP, DeclDiv}, {} }

\* what one solver returns: check() and, when sat, model()
StageOut == {[res |-> unsat, model |-> NoModel], [res |-> unknown, model |-> NoModel]}
            \cup {[res |-> sat, model |-> <<m>>] : m \in Models}

\* stdout of the external z3, stripped
Stdouts == {<<"u", "n", "s", "a", "t">>, <<"s", "a", "t">>, <<"u", "n", "k", "n", "o", "w", "n">>}

\* the answers the solvers would give for one terminal state
SolverAnswers == [s1 : StageOut, s2 : StageOut, s3 : StageOut, out : Stdouts]

is_valid_model(model) ==
    \A decl \in model[1] : ~startswith(decl, <<"e", "v", "m", "_">>)

\* gen_model, l.335-374: the result and the model after the three in-process solvers
GmAfter1(sv) == sv.s1
Ran2(sv) == GmAfter1(sv).res = unknown
GmAfter2(sv) ==
    IF Ran2(sv)
    THEN [res |-> sv.s2.res,
          model |-> IF sv.s2.res = sat THEN sv.s2.model ELSE GmAfter1(sv).model]
    ELSE GmAfter1(sv)
Ran3(sv) == GmAfter2(sv).res = sat /\ ~is_valid_model(GmAfter2(sv).model)
GmAfter3(sv) ==
    IF Ran3(sv)
    THEN [res |-> sv.s3.res,
          model |-> IF sv.s3.res = sat THEN sv.s3.model ELSE GmAfter2(sv).model]
    ELSE GmAfter2(sv)
\* l.375-384: the external solver
RanSub(sp, sv) == GmAfter3(sv).res = unknown /\ sp
GmFinal(sp, sv) ==
    IF RanSub(sp, sv) /\ sv.out = <<"u", "n", "s", "a", "t">>
    THEN [res |-> unsat, model |-> GmAfter3(sv).model]
    ELSE GmAfter3(sv)

\* the answers gen_model can see: a solver that is not asked answers nothing
NotAsked == [res |-> unsat, model |-> NoModel]
SolverRuns(sp) ==
    {sv \in SolverAnswers :
        /\ Ran2(sv) \/ sv.s2 = NotAsked
        /\ Ran3(sv) \/ sv.s3 = NotAsked
        /\ (GmAfter3(sv).res = unknown /\ sp) \/ sv.out = <<"s", "a", "t">>}

\* faulty variant of l.385-393: the model is appended without is_valid_model
GmRecordUnchecked(sp, i, sv) ==
    LET f == GmFinal(sp, sv) IN
    IF f.res = unsat THEN <<>>
    ELSE IF f.res = sat THEN <<[model |-> f.model, idx |-> i]>>
    ELSE <<[model |-> NoModel, idx |-> i]>>

\* faulty variant of l.385-393: an unknown result is dropped like an unsat one
GmRecordDropUnknown(sp, i, sv) ==
    LET f == GmFinal(sp, sv) IN
    IF f.res = sat
    THEN IF is_valid_model(f.model)
         THEN <<[model |-> f.model, idx |-> i]>>
         ELSE <<[model |-> NoModel, idx |-> i]>>
    ELSE <<>>

\* l.385-393: what gen_model appends to models
GmRecord(sp, i, sv) ==
    LET f == GmFinal(sp, sv) IN
    IF f.res = unsat THEN <<>>
    ELSE IF f.res = sat
    THEN IF is_valid_model(f.model)
         THEN <<[model |-> f.model, idx |-> i]>>
         ELSE <<[model |-> NoModel, idx |-> i]>>
    ELSE <<[model |-> NoModel, idx |-> i]>>

gen_model(sp, ms, i, sv) == ms \o GmRecord(sp, i, sv)

\* history of a call: which stage answered unsat, the final result and model
GmSummary(sp, i, sv) ==
    [idx |-> i,
     unsatBy |-> IF sv.s1.res = unsat THEN "path"
                 ELSE IF Ran2(sv) /\ sv.s2.res = unsat THEN "fresh"
                 ELSE IF Ran3(sv) /\ sv.s3.res = unsat THEN "axiom"
                 ELSE IF RanSub(sp, sv) /\ sv.out = <<"u", "n", "s", "a", "t">> THEN "external"
                 ELSE "none",
     external |-> IF RanSub(sp, sv) THEN sv.out ELSE <<>>,
     final |-> GmFinal(sp, sv).res,
     lastModel |-> GmFinal(sp, sv).model]

\* ---------------------------------------------------------------- run: classification
\* faulty variant of l.285-288: a revert other than Panic(1) counted as normal
ClassifyRevertNormal(ex) ==
    IF ex.op = "STOP" \/ ex.op = "RETURN"
    THEN IF ex.failed THEN "candidate" ELSE "normal"
    ELSE IF ex.op = "REVERT"
    THEN IF ex.output = PanicCode THEN "candidate" ELSE "normal"
    ELSE "stuck"

\* faulty variant of l.280-284: the failed flag is not read
ClassifyIgnoreFailed(ex) ==
    IF ex.op = "STOP" \/ ex.op = "RETURN"
    THEN "normal"
    ELSE IF ex.op = "REVERT"
    THEN IF ex.output = PanicCode THEN "candidate" ELSE "ignored"
    ELSE "stuck"

\* l.279-290: the class of one terminal state
Classify(ex) ==
    IF ex.op = "STOP" \/ ex.op = "RETURN"
    THEN IF ex.failed THEN "candidate" ELSE "normal"
    ELSE IF ex.op = "REVERT"
    THEN IF ex.output = PanicCode THEN "candidate" ELSE "ignored"
    ELSE "stuck"

\* faulty variant of l.294: the stuck states are not counted
PassedIgnoringStuck(n, ms, st) == n > 0 /\ Len(ms) = 0

\* l.294
Passed(n, ms, st) == n > 0 /\ Len(ms) = 0 /\ Len(st) = 0

\* l.302-311: the lines printed after the verdict. `if model:` is false for None
\* and for a model with no declaration.
ResultLines(ms, st) ==
    [k \in 1..Len(ms) |->
        [line |-> IF ms[k].model # NoModel /\ ms[k].model # <<{}>>
                  THEN "Counterexample: model" ELSE "Counterexample: unknown",
         idx |-> ms[k].idx]]
    \o [k \in 1..Len(st) |-> [line |-> "Not supported", idx |-> st[k].idx]]

RunInit ==
    /\ exs \in UNION {[1..n -> Terminals] : n \in 0..MaxExs}
    /\ subproc \in BOOLEAN
    /\ idx = 0
    /\ normal = 0
    /\ models = <<>>
    /\ stuck = <<>>
    /\ rpc = "loop"
    /\ exitcode = -1
    /\ printed = <<>>
    /\ gmCalls = <<>>
    /\ lastGm = <<>>
    \* main is not running
    /\ files = <<>> /\ argFunction = <<>> /\ argContract = None
    /\ fi = 0 /\ ci = 0 /\ ti = 0 /\ mpc = "off"
    /\ num_passed = 0 /\ num_failed = 0 /\ total_passed = 0 /\ total_failed = 0
    /\ mainExit = -1 /\ setupExs = <<>> /\ ranLog = <<>>
    \* the calldata builder is not running
    /\ abi = <<>> /\ target = 0 /\ funname = "" /\ funselector = 0
    /\ arrlen = <<>> /\ argLoop = 0 /\ ai = 0
    /\ cd = <<>> /\ dyn_param_size = <<>> /\ cdpc = "off" /\ cdErr = "none"
    \* no test is running
    /\ heap = <<>> /\ tex = <<>> /\ ipc = "off" /\ postSetup = <<>>
    /\ testNo = 0 /\ nsteps = 0

\* l.278-290: one iteration of the loop over exs, gen_model included
RunClassify ==
    /\ rpc = "loop"
    /\ idx < Len(exs)
    /\ LET ex == exs[idx + 1]
           c == Classify(ex)
       IN  /\ normal' = IF c = "normal" THEN normal + 1 ELSE normal
           /\ stuck' = IF c = "stuck" THEN Append(stuck, [opcode |-> ex.op, idx |-> idx])
                       ELSE stuck
           /\ IF c = "candidate"
              THEN \E sv \in SolverRuns(subproc) :
                     /\ models' = gen_model(subproc, models, idx, sv)
                     /\ lastGm' = <<GmSummary(subproc, idx, sv)>>
                     /\ gmCalls' = Append(gmCalls, idx)
              ELSE UNCHANGED <<models, lastGm, gmCalls>>
    /\ idx' = idx + 1
    /\ UNCHANGED <<exs, subproc, rpc, exitcode, printed>>

\* l.292-332: the verdict, the report and the exit code
RunFinish ==
    /\ rpc = "loop"
    /\ idx = Len(exs)
    /\ printed' = ResultLines(models, stuck)
    /\ exitcode' = IF Passed(normal, models, stuck) THEN 0 ELSE 1
    /\ rpc' = "done"
    /\ UNCHANGED <<exs, subproc, idx, normal, models, stuck, gmCalls, lastGm>>

RunNext ==
    \/ RunClassify /\ UNCHANGED <<mainVars, cdVars, isoVars>>
    \/ RunFinish /\ UNCHANGED <<mainVars, cdVars, isoVars>>

\* ---------------------------------------------------------------- main and setup
MaxSetupExs == 2

SigSetUp == <<"s", "e", "t", "U", "p", "(", ")">>
SigTestA == <<"t", "A", "(", ")">>
SigTestB == <<"t", "B", "(", "u", ")">>
SigCheck == <<"c", "(", ")">>

\* methodIdentifiers of a contract: the signatures, in the order of the dict
IdLists ==
    { <<SigTestA>>, <<SigSetUp, SigTestA>>, <<SigTestA, SigSetUp, SigTestB>>,
      <<SigCheck>>, <<SigSetUp, SigCheck>>, <<SigCheck, SigTestB, SigTestA>> }

ContractsOf(names) == {c \in [1..Len(names) -> [name : {"A", "B"}, ids : IdLists]] :
                          \A k \in 1..Len(names) : c[k].name = names[k]}

\* the files of the compilation units in sorted order, each with its contracts
\* in sorted order
FileLists ==
    {<<[contracts |-> c]>> : c \in ContractsOf(<<"A">>) \cup ContractsOf(<<"A", "B">>)}
    \cup {<<[contracts |-> c1], [contracts |-> c2]>> :
            c1 \in ContractsOf(<<"A">>), c2 \in ContractsOf(<<"B">>)}

Prefixes == {<<"t">>, <<"t", "A">>, <<"s", "e", "t">>, <<"x">>}

\* what the explorer can return for setUp(): the opcode reached and the failed flag
SetupTerminals == [op : Opcodes, failed : BOOLEAN]

\* l.481-485: the contracts of a file that are visited
ContractsVisited(file, want) ==
    IF want # None
    THEN SelectSeq(file.contracts, LAMBDA c : c.name = want)
    ELSE file.contracts

\* l.494
TestFunsigs(ids, prefix) == SelectSeq(ids, LAMBDA sig : startswith(sig, prefix))

\* l.496: methodIdentifiers.get('setUp()')
HasSetUp(ids) == \E k \in 1..Len(ids) : ids[k] = SigSetUp

\* faulty variant of l.136: the failed flag is not read
SetupResultIgnoringFailed(sx) ==
    IF Len(sx) # 1 THEN "multiple paths exist in setUp()"
    ELSE IF sx[1].op # "STOP" /\ sx[1].op # "RETURN"
    THEN "setUp() failed"
    ELSE "ok"

\* setup, l.129-136: "ok" or the ValueError raised
SetupResult(sx) ==
    IF Len(sx) # 1 THEN "multiple paths exist in setUp()"
    ELSE IF (sx[1].op # "STOP" /\ sx[1].op # "RETURN") \/ sx[1].failed
    THEN "setUp() failed"
    ELSE "ok"

\* faulty variant of l.519: the passed count decides
MainExitOnPassed(tp, tf) == IF tp > 0 THEN 0 ELSE 1

\* l.519-522
MainExitCode(tp, tf) == IF tf = 0 THEN 0 ELSE 1

MainInit ==
    /\ files \in FileLists
    /\ argFunction \in Prefixes
    /\ argContract \in {None, "A", "B"}
    /\ fi = 1 /\ ci = 1 /\ ti = 1
    /\ mpc = "contracts"
    /\ num_passed = 0 /\ num_failed = 0 /\ total_passed = 0 /\ total_failed = 0
    /\ mainExit = -1
    /\ setupExs = <<>>
    /\ ranLog = <<>>
    \* run is not running
    /\ exs = <<>> /\ subproc = FALSE /\ idx = 0 /\ normal = 0 /\ models = <<>>
    /\ stuck = <<>> /\ rpc = "off" /\ exitcode = -1 /\ printed = <<>>
    /\ gmCalls = <<>> /\ lastGm = <<>>
    \* the calldata builder is not running
    /\ abi = <<>> /\ target = 0 /\ funname = "" /\ funselector = 0
    /\ arrlen = <<>> /\ argLoop = 0 /\ ai = 0
    /\ cd = <<>> /\ dyn_param_size = <<>> /\ cdpc = "off" /\ cdErr = "none"
    \* no test is running
    /\ heap = <<>> /\ tex = <<>> /\ ipc = "off" /\ postSetup = <<>>
    /\ testNo = 0 /\ nsteps = 0

CurContracts == ContractsVisited(files[fi], argContract)
CurContract == CurContracts[ci]
CurFunsigs == TestFunsigs(CurContract.ids, argFunction)

\* l.477-486: the loops move on to the next file
MainNextFile ==
    /\ mpc = "contracts"
    /\ fi <= Len(files)
    /\ ci > Len(CurContracts)
    /\ fi' = fi + 1
    /\ ci' = 1
    /\ UNCHANGED <<files, argFunction, argContract, ti, mpc, num_passed, num_failed,
                   total_passed, total_failed, mainExit, setupExs, ranLog>>

\* l.487-498: a contract none of whose functions match
MainSkipContract ==
    /\ mpc = "contracts"
    /\ fi <= Len(files)
    /\ ci <= Len(CurContracts)
    /\ CurFunsigs = <<>>
    /\ ci' = ci + 1
    /\ UNCHANGED <<files, argFunction, argContract, fi, ti, mpc, num_passed, num_failed,
                   total_passed, total_failed, mainExit, setupExs, ranLog>>

\* l.498-502 and setup (l.78-141): a contract with tests; setUp() is run when the
\* contract has one
MainSetup ==
    /\ mpc = "contracts"
    /\ fi <= Len(files)
    /\ ci <= Len(CurContracts)
    /\ CurFunsigs # <<>>
    /\ num_passed' = 0
    /\ num_failed' = 0
    /\ ti' = 1
    /\ IF HasSetUp(CurContract.ids)
       THEN \E sx \in UNION {[1..n -> SetupTerminals] : n \in 0..MaxSetupExs} :
              /\ setupExs' = <<sx>>
              /\ mpc' = IF SetupResult(sx) = "ok" THEN "tests" ELSE SetupResult(sx)
       ELSE /\ setupExs' = <<>>
            /\ mpc' = "tests"
    /\ UNCHANGED <<files, argFunction, argContract, fi, ci, total_passed, total_failed,
                   mainExit, ranLog>>

\* l.503-510: one test function; run returns 0 or 1
MainTest ==
    /\ mpc = "tests"
    /\ ti <= Len(CurFunsigs)
    /\ \E code \in {0, 1} :
         /\ num_passed' = IF code = 0 THEN num_passed + 1 ELSE num_passed
         /\ num_failed' = IF code = 0 THEN num_failed ELSE num_failed + 1
         /\ ranLog' = Append(ranLog, [file |-> fi, contract |-> CurContract.name,
                                      funsig |-> CurFunsigs[ti], exitcode |-> code])
    /\ ti' = ti + 1
    /\ UNCHANGED <<files, argFunction, argContract, fi, ci, mpc, total_passed,
                   total_failed, mainExit, setupExs>>

\* l.506: run raises (an unsupported parameter type)
MainTestRaises ==
    /\ mpc = "tests"
    /\ ti <= Len(CurFunsigs)
    /\ mpc' = "Not supported"
    /\ UNCHANGED <<files, argFunction, argContract, fi, ci, ti, num_passed, num_failed,
                   total_passed, total_failed, mainExit, setupExs, ranLog>>

\* l.511-513
MainContractDone ==
    /\ mpc = "tests"
    /\ ti > Len(CurFunsigs)
    /\ total_passed' = total_passed + num_passed
    /\ total_failed' = total_failed + num_failed
    /\ ci' = ci + 1
    /\ mpc' = "contracts"
    /\ UNCHANGED <<files, argFunction, argContract, fi, ti, num_passed, num_failed,
                   mainExit, setupExs, ranLog>>

\* l.515-522
MainFinish ==
    /\ mpc = "contracts"
    /\ fi > Len(files)
    /\ IF total_passed + total_failed = 0
       THEN mpc' = "No matching tests found" /\ UNCHANGED mainExit
       ELSE mpc' = "done" /\ mainExit' = MainExitCode(total_passed, total_failed)
    /\ UNCHANGED <<files, argFunction, argContract, fi, ci, ti, num_passed, num_failed,
                   total_passed, total_failed, setupExs, ranLog>>

MainNext ==
    \/ MainNextFile /\ UNCHANGED <<runVars, cdVars, isoVars>>
    \/ MainSkipContract /\ UNCHANGED <<runVars, cdVars, isoVars>>
    \/ MainSetup /\ UNCHANGED <<runVars, cdVars, isoVars>>
    \/ MainTest /\ UNCHANGED <<runVars, cdVars, isoVars>>
    \/ MainTestRaises /\ UNCHANGED <<runVars, cdVars, isoVars>>
    \/ MainContractDone /\ UNCHANGED <<runVars, cdVars, isoVars>>
    \/ MainFinish /\ UNCHANGED <<runVars, cdVars, isoVars>>

\* ---------------------------------------------------------------- run: calldata
MaxParams == 2

\* --loop, l.28
DefaultLoop == 2

\* a parameter type is its base type and its array suffixes, left to right:
\* uint256[][2] is [base |-> "uint256", dims |-> <<Dyn, 2>>]
Dyn == -1
StaticBases == {"uint256", "int8", "address", "bool", "bytes32"}
Ty(b, d) == [base |-> b, dims |-> d]
ParamTypes ==
    {Ty(b, <<>>) : b \in StaticBases \cup {"bytes", "string", "tuple"}}
    \cup {Ty("uint256", <<2>>), Ty("bool", <<1>>), Ty("bytes", <<2>>), Ty("string", <<1>>),
          Ty("uint256", <<Dyn>>), Ty("uint256", <<Dyn, 2>>)}

ParamNames == <<"a", "b", "c", "d">>

\* the inputs of an ABI entry: parameter k is named ParamNames[k]
InputLists ==
    UNION {{[k \in 1..n |-> [name |-> ParamNames[k], type |-> ts[k]]] :
              ts \in [1..n -> ParamTypes]} : n \in 0..MaxParams}

\* other entries of an ABI: an overload of the test, another function, an event
OtherEntries ==
    {[type |-> "function", name |-> "test", inputs |-> <<[name |-> "x", type |-> Ty("bytes", <<>>)]>>],
     [type |-> "function", name |-> "test", inputs |-> <<[name |-> "x", type |-> Ty("tuple", <<>>)]>>],
     [type |-> "function", name |-> "other", inputs |-> <<[name |-> "x", type |-> Ty("tuple", <<>>)]>>],
     [type |-> "event", name |-> "test", inputs |-> <<[name |-> "x", type |-> Ty("uint256", <<Dyn>>)]>>]}

\* --array-lengths: parameter name -> length
ArrLens ==
    {<<>>, [n \in {"a"} |-> 33], [n \in {"a", "b"} |-> IF n = "a" THEN 0 ELSE 32],
     [n \in {"a"} |-> -40], [n \in {"a"} |-> -63]}

\* a byte of the calldata: the concrete value v, or byte v (0: the most
\* significant) of the symbol p_<name>[<idx>]_<typ> (idx -1: no index)
ConByte(v) == [name |-> "", idx |-> -1, typ |-> "", v |-> v]
SymByte(w, k) == [name |-> w.name, idx |-> w.idx, typ |-> w.typ, v |-> k]

\* a value written to the calldata: BitVecVal(v, 8 * size) or BitVec(name, 8 * size)
Con(v) == [name |-> "", idx |-> -1, typ |-> "", v |-> v]
Sym(n, i, t) == [name |-> n, idx |-> i, typ |-> t, v |-> -1]

\* wstore(mem, loc, size, val): the size bytes of val, big-endian, at loc
wstore(mem, loc, size, val) ==
    [j \in DOMAIN mem \cup (loc..(loc + size - 1)) |->
        IF j \in loc..(loc + size - 1)
        THEN IF val.name = "" THEN ConByte(ByteOf(val.v, size, j - loc))
             ELSE SymByte(val, j - loc)
        ELSE mem[j]]

\* l.182: re.search of (u?int[0-9]*|address|bool|bytes[0-9]+)(\[([0-9]+)\])? in
\* the type: it matches when the base is one of the static types; group 3 is the
\* size of the first suffix when that suffix is [K] (NoDim: group 3 is None)
NoDim == -1
RegexMatches(t) == t.base \in StaticBases
RegexDim(t) == IF t.dims # <<>> /\ t.dims[1] # Dyn THEN t.dims[1] ELSE NoDim

\* str.endswith('[]')
EndsWithDyn(t) == t.dims # <<>> /\ t.dims[Len(t.dims)] = Dyn

\* l.174-192: the branch taken for a parameter type
ParamBranch(t) ==
    IF t = Ty("tuple", <<>>) THEN "tuple"
    ELSE IF t = Ty("bytes", <<>>) \/ t = Ty("string", <<>>) THEN "dynamic"
    ELSE IF EndsWithDyn(t) THEN "varsize"
    ELSE IF ~RegexMatches(t) THEN "unknown"
    ELSE IF RegexDim(t) # NoDim THEN "array"
    ELSE "primitive"

\* l.187-189: the words of a fixed-size array
RECURSIVE StoreArray(_, _, _, _, _)
StoreArray(st, param, dim, i, typ) ==
    IF i >= dim THEN st
    ELSE StoreArray([st EXCEPT !.cd = wstore(st.cd, 4 + st.offset, 32, Sym(param.name, i, typ)),
                               !.offset = st.offset + 32],
                    param, dim, i + 1, typ)

\* l.171-192: one parameter of the first loop
HeadStep(st, param) ==
    LET b == ParamBranch(param.type) IN
    IF b = "tuple" THEN [st EXCEPT !.err = "Not supported"]
    ELSE IF b = "dynamic"
    THEN [st EXCEPT !.tba = Append(st.tba, [loc |-> 4 + st.offset, param |-> param]),
                    !.offset = st.offset + 32]
    ELSE IF b = "varsize" THEN [st EXCEPT !.err = "Not supported variable sized arrays"]
    ELSE IF b = "unknown" THEN [st EXCEPT !.err = "Unknown type"]
    ELSE IF b = "array"
    THEN StoreArray(st, param, RegexDim(param.type), 0, param.type.base)
    ELSE [st EXCEPT !.cd = wstore(st.cd, 4 + st.offset, 32,
                                  Sym(param.name, -1, param.type.base)),
                    !.offset = st.offset + 32]

RECURSIVE HeadLoop(_, _, _)
HeadLoop(st, inputs, k) ==
    IF k > Len(inputs) \/ st.err # "none" THEN st
    ELSE HeadLoop(HeadStep(st, inputs[k]), inputs, k + 1)

\* l.200-204
ParamSize(sizes, loop, name) == IF name \in DOMAIN sizes THEN sizes[name] ELSE loop

\* l.212: int((size + 31) / 32) * 32: the quotient is truncated toward zero
SizePadRight(size) ==
    IF size + 31 >= 0 THEN ((size + 31) \div 32) * 32
    ELSE (0 - ((0 - (size + 31)) \div 32)) * 32

\* l.194-219: one bytes/string parameter of the second loop
TailStep(st, lp, sizes, loop) ==
    LET size == ParamSize(sizes, loop, lp.param.name)
        pad == SizePadRight(size)
        cd1 == wstore(st.cd, lp.loc, 32, Con(st.offset))
        cd2 == wstore(cd1, 4 + st.offset, 32, Con(size))
        cd3 == IF pad > 0
               THEN wstore(cd2, 4 + st.offset + 32, pad, Sym(lp.param.name, -1, lp.param.type.base))
               ELSE cd2
    IN  [st EXCEPT !.cd = cd3,
                   !.offset = st.offset + 32 + (IF pad > 0 THEN pad ELSE 0),
                   !.dps = Append(st.dps, [name |-> lp.param.name, size |-> size])]

RECURSIVE TailLoop(_, _, _, _)
TailLoop(st, k, sizes, loop) ==
    IF k > Len(st.tba) THEN st
    ELSE TailLoop(TailStep(st, st.tba[k], sizes, loop), k + 1, sizes, loop)

\* l.168
ItemMatches(item, name) == item.type = "function" /\ item.name = name

\* l.168-219: one entry of the ABI
BuildItem(item, name, mem, dps, sizes, loop) ==
    IF ~ItemMatches(item, name)
    THEN [cd |-> mem, offset |-> 0, tba |-> <<>>, dps |-> dps, err |-> "none"]
    ELSE LET h == HeadLoop([cd |-> mem, offset |-> 0, tba |-> <<>>, dps |-> dps, err |-> "none"],
                           item.inputs, 1)
         IN  IF h.err # "none" THEN h ELSE TailLoop(h, 1, sizes, loop)

CdInit ==
    /\ \E own \in {[type |-> "function", name |-> "test", inputs |-> ins] : ins \in InputLists} :
         abi \in {<<own>>} \cup {<<own, o>> : o \in OtherEntries}
                           \cup {<<o, own>> : o \in OtherEntries}
    /\ target \in {k \in 1..Len(abi) : abi[k].type = "function" /\ abi[k].name = "test"}
    /\ funname = "test"
    /\ funselector = 66051
    /\ arrlen \in ArrLens
    /\ argLoop = DefaultLoop
    /\ ai = 0
    \* l.157-163: cd(i) everywhere, then the selector in bytes 0..3
    /\ cd = wstore(<<>>, 0, 4, Con(funselector))
    /\ dyn_param_size = <<>>
    /\ cdpc = "build"
    /\ cdErr = "none"
    \* the classification is not running
    /\ exs = <<>> /\ subproc = FALSE /\ idx = 0 /\ normal = 0 /\ models = <<>>
    /\ stuck = <<>> /\ rpc = "off" /\ exitcode = -1 /\ printed = <<>>
    /\ gmCalls = <<>> /\ lastGm = <<>>
    \* main is not running
    /\ files = <<>> /\ argFunction = <<>> /\ argContract = None
    /\ fi = 0 /\ ci = 0 /\ ti = 0 /\ mpc = "off"
    /\ num_passed = 0 /\ num_failed = 0 /\ total_passed = 0 /\ total_failed = 0
    /\ mainExit = -1 /\ setupExs = <<>> /\ ranLog = <<>>
    \* no test is running
    /\ heap = <<>> /\ tex = <<>> /\ ipc = "off" /\ postSetup = <<>>
    /\ testNo = 0 /\ nsteps = 0

\* l.167-219: one iteration of the loop over the ABI
CdItem ==
    /\ cdpc = "build"
    /\ ai < Len(abi)
    /\ LET r == BuildItem(abi[ai + 1], funname, cd, dyn_param_size, arrlen, argLoop)
       IN  /\ cd' = r.cd
           /\ dyn_param_size' = r.dps
           /\ cdErr' = r.err
           /\ cdpc' = IF r.err # "none" THEN "raised" ELSE "build"
    /\ ai' = ai + 1
    /\ UNCHANGED <<abi, target, funname, funselector, arrlen, argLoop>>

\* l.221-272: the calldata is complete and goes to the explorer
CdDone ==
    /\ cdpc = "build"
    /\ ai = Len(abi)
    /\ cdpc' = "built"
    /\ UNCHANGED <<abi, target, funname, funselector, arrlen, argLoop, ai, cd,
                   dyn_param_size, cdErr>>

CdNext ==
    \/ CdItem /\ UNCHANGED <<runVars, mainVars, isoVars>>
    \/ CdDone /\ UNCHANGED <<runVars, mainVars, isoVars>>

\* ---------------------------------------------------------------- run: the Exec of a test
MaxTests == 2
MaxSteps == 2

\* the fields of an Exec that hold a mutable object
DeepCopied == {"storage", "path", "log", "cnts", "sha3s", "storages", "calls"}
Shared == {"pgm", "code"}
Fields == DeepCopied \cup Shared \cup {"solver"}

\* faulty variant of l.248: the storage object of setup_ex is shared
ExecFieldOwnerAliasStorage(f) ==
    IF f \in (DeepCopied \ {"storage"}) \cup {"solver"} THEN "test" ELSE "setup"

\* l.241-269: the object a field of the test's Exec refers to: a fresh object
\* ("test") for deepcopy(...) and for the new solver, the object of setup_ex
\* ("setup") for the programs inside the shallow copies pgm.copy(), code.copy()
ExecFieldOwner(f) == IF f \in DeepCopied \cup {"solver"} THEN "test" ELSE "setup"

\* l.245-272: the Exec run builds from setup_ex
NewExec == [refs |-> [f \in Fields |-> ExecFieldOwner(f)],
            pc |-> 0, st |-> <<>>, jumpis |-> {}, failed |-> FALSE]

\* the objects after the copies: a fresh object starts with the value of setup_ex's
CopiedHeap(h) ==
    [o \in {"setup", "test"} |->
        [f \in Fields |-> IF o = "test" /\ ExecFieldOwner(f) = "test"
                          THEN h["setup"][f] ELSE h[o][f]]]

IsoInit ==
    /\ \E v \in {<<>>, <<0>>} :
         heap = [o \in {"setup", "test"} |-> [f \in Fields |-> IF o = "setup" THEN v ELSE <<>>]]
    /\ postSetup = heap["setup"]
    /\ tex = <<>>
    /\ ipc = "idle"
    /\ testNo = 0
    /\ nsteps = 0
    \* the classification is not running
    /\ exs = <<>> /\ subproc = FALSE /\ idx = 0 /\ normal = 0 /\ models = <<>>
    /\ stuck = <<>> /\ rpc = "off" /\ exitcode = -1 /\ printed = <<>>
    /\ gmCalls = <<>> /\ lastGm = <<>>
    \* main is not running
    /\ files = <<>> /\ argFunction = <<>> /\ argContract = None
    /\ fi = 0 /\ ci = 0 /\ ti = 0 /\ mpc = "off"
    /\ num_passed = 0 /\ num_failed = 0 /\ total_passed = 0 /\ total_failed = 0
    /\ mainExit = -1 /\ setupExs = <<>> /\ ranLog = <<>>
    \* the calldata builder is not running
    /\ abi = <<>> /\ target = 0 /\ funname = "" /\ funselector = 0
    /\ arrlen = <<>> /\ argLoop = 0 /\ ai = 0
    /\ cd = <<>> /\ dyn_param_size = <<>> /\ cdpc = "off" /\ cdErr = "none"

\* l.237-272: run builds the Exec of a test from setup_ex
IsoStartTest ==
    /\ ipc = "idle"
    /\ testNo < MaxTests
    /\ heap' = CopiedHeap(heap)
    /\ tex' = <<NewExec>>
    /\ testNo' = testNo + 1
    /\ nsteps' = 0
    /\ ipc' = "running"
    /\ UNCHANGED postSetup

\* sevm.run: a step of the explorer updates, in place, an object of the Exec
\* (a storage write, a path condition and its assertion, a log, a counter, ...)
IsoExplore ==
    /\ ipc = "running"
    /\ nsteps < MaxSteps
    /\ \E f \in DeepCopied \cup {"solver"} :
         heap' = [heap EXCEPT ![tex[1].refs[f]][f] = Append(@, testNo)]
    /\ tex' = <<[tex[1] EXCEPT !.pc = @ + 1, !.st = Append(@, testNo),
                               !.jumpis = @ \cup {nsteps}]>>
    /\ nsteps' = nsteps + 1
    /\ UNCHANGED <<ipc, postSetup, testNo>>

\* l.274-332: run returns
IsoEndTest ==
    /\ ipc = "running"
    /\ ipc' = "idle"
    /\ tex' = <<>>
    /\ UNCHANGED <<heap, postSetup, testNo, nsteps>>

IsoNext ==
    \/ IsoStartTest /\ UNCHANGED <<runVars, mainVars, cdVars>>
    \/ IsoExplore /\ UNCHANGED <<runVars, mainVars, cdVars>>
    \/ IsoEndTest /\ UNCHANGED <<runVars, mainVars, cdVars>>

\* ---------------------------------------------------------------- specifications
\* run from the return of the explorer to the exit code
SpecRun == RunInit /\ [][RunNext]_vars

\* main, with setup and the exit codes of run
SpecMain == MainInit /\ [][MainNext]_vars

\* the construction of the calldata in run
SpecCd == CdInit /\ [][CdNext]_vars

\* the tests of one contract, each on its own Exec
SpecIso == IsoInit /\ [][IsoNext]_vars

\* ================================================================ claims
\* ---------------------------------------------------------------- run (SpecRun)
NormalTerminal(ex) == (ex.op = "STOP" \/ ex.op = "RETURN") /\ ~ex.failed
OtherRevert(ex) == ex.op = "REVERT" /\ ex.output # PanicCode
Violation(ex) ==
    \/ (ex.op = "STOP" \/ ex.op = "RETURN") /\ ex.failed
    \/ ex.op = "REVERT" /\ ex.output = PanicSelector \o WordBytes(1, 32)
Unsupported(ex) == ex.op \notin {"STOP", "RETURN", "REVERT"}
GmCalledOn(i) == \E k \in 1..Len(gmCalls) : gmCalls[k] = i
StuckOn(i) == \E k \in 1..Len(stuck) : stuck[k].idx = i
RecordedOn(i) == \E k \in 1..Len(models) : models[k].idx = i

\* C1: run returns 0 exactly when some terminal state is a normal terminal, the
\* list of counterexamples is empty and the list of stuck states is empty, and
\* returns 1 in every other case.
C1_PassIff ==
    rpc = "done" =>
        /\ exitcode \in {0, 1}
        /\ exitcode = 0 <=>
             /\ \E i \in 1..Len(exs) : NormalTerminal(exs[i])
             /\ models = <<>>
             /\ stuck = <<>>

\* a passed test one of whose candidates the solver discarded
C1_Witness ==
    rpc = "done" /\ exitcode = 0 /\ Len(exs) >= 2 /\ gmCalls # <<>>

\* C2, as claimed: a test whose terminal states are all reverts other than
\* Panic(1) is reported as passed.
C2_AllRevertsPass ==
    (rpc = "done" /\ Len(exs) > 0 /\ \A i \in 1..Len(exs) : OtherRevert(exs[i]))
        => exitcode = 0

\* C2, amended: a revert other than Panic(1) is counted in no class (normal counts
\* the STOP/RETURN terminals with failed = false only), and a test whose terminal
\* states are all such reverts is reported as failed.
C2_RevertNotCounted ==
    rpc = "done" =>
        /\ normal = Cardinality({i \in 1..Len(exs) : NormalTerminal(exs[i])})
        /\ \A i \in 1..Len(exs) :
             OtherRevert(exs[i]) => ~GmCalledOn(i - 1) /\ ~StuckOn(i - 1)
        /\ (\A i \in 1..Len(exs) : OtherRevert(exs[i]))
             => exitcode = 1 /\ normal = 0 /\ models = <<>> /\ stuck = <<>>

C2_Witness ==
    /\ rpc = "done" /\ Len(exs) >= 2 /\ exitcode = 1
    /\ \A i \in 1..Len(exs) : OtherRevert(exs[i])
    /\ \E i \in 1..Len(exs) : exs[i].output = PanicOverflow

\* C3: gen_model is called on a terminal state exactly when it is at STOP/RETURN
\* with failed set or at REVERT with the Panic(1) output; a terminal at another
\* opcode goes to the stuck list and never to gen_model; no terminal is in two
\* classes.
C3_Classes ==
    /\ \A i \in 0..(idx - 1) :
         LET ex == exs[i + 1] IN
         /\ GmCalledOn(i) <=> Violation(ex)
         /\ StuckOn(i) <=> Unsupported(ex)
         /\ ~(GmCalledOn(i) /\ StuckOn(i))
         /\ Cardinality({k \in 1..Len(gmCalls) : gmCalls[k] = i}) <= 1
         /\ \A k \in 1..Len(stuck) : stuck[k].idx = i => stuck[k].opcode = ex.op
    /\ normal = Cardinality({i \in 0..(idx - 1) :
                                ~GmCalledOn(i) /\ ~StuckOn(i) /\ ~OtherRevert(exs[i + 1])})
    /\ \A k \in 1..Len(gmCalls) : gmCalls[k] < idx
    /\ \A k \in 1..Len(stuck) : stuck[k].idx < idx

C3_Witness ==
    /\ rpc = "done" /\ gmCalls = <<0>> /\ stuck # <<>>
    /\ exs[1].op = "REVERT" /\ exs[1].output = PanicCode

\* C5: every recorded counterexample that has a model has a valid one, and a
\* candidate whose last satisfying model interprets an evm_ function is recorded
\* without a model.
C5_ValidModels ==
    /\ \A k \in 1..Len(models) :
         models[k].model # NoModel => is_valid_model(models[k].model)
    /\ \A g \in {lastGm[k] : k \in 1..Len(lastGm)} :
         (g.final = sat /\ ~is_valid_model(g.lastModel))
            => models # <<>> /\ models[Len(models)] = [model |-> NoModel, idx |-> g.idx]

C5_Witness ==
    /\ lastGm # <<>> /\ lastGm[1].final = sat /\ ~is_valid_model(lastGm[1].lastModel)
    /\ Len(models) = 2 /\ models[1].model # NoModel /\ models[2].model = NoModel

\* C6: a candidate is discarded only when a solver (path, fresh, axiomatized, or
\* the external one when solver-subprocess is set) answered unsat; a final sat or
\* unknown is recorded; an unknown is recorded without a model, printed as
\* "Counterexample: unknown", and fails the test.
C6_DiscardOnlyUnsat ==
    /\ \A g \in {lastGm[k] : k \in 1..Len(lastGm)} :
         /\ ~RecordedOn(g.idx) => g.unsatBy # "none" /\ g.final = unsat
         /\ g.final \in {sat, unknown} => RecordedOn(g.idx)
         /\ g.unsatBy = "external" => subproc
         /\ g.final = unknown => models[Len(models)] = [model |-> NoModel, idx |-> g.idx]
    /\ rpc = "done" =>
         \A k \in 1..Len(models) :
            models[k].model = NoModel =>
               /\ printed[k] = [line |-> "Counterexample: unknown", idx |-> models[k].idx]
               /\ exitcode = 1

C6_Witness ==
    /\ rpc = "done" /\ subproc /\ lastGm # <<>>
    /\ lastGm[1].final = unknown /\ lastGm[1].external = <<"s", "a", "t">>
    /\ printed # <<>> /\ printed[Len(printed)].line = "Counterexample: unknown"
    /\ exitcode = 1

\* ---------------------------------------------------------------- main and setup (SpecMain)
SetupNormal(sx) ==
    Len(sx) = 1 /\ sx[1].op \in {"STOP", "RETURN"} /\ sx[1].failed = FALSE
RanOfCurrent ==
    {k \in 1..Len(ranLog) : ranLog[k].file = fi /\ ranLog[k].contract = CurContract.name}

\* C4: with a setUp selector, the tests of the contract get a state only if the
\* explorer returned exactly one terminal state, at STOP or RETURN with failed
\* not set; otherwise setup raises and no test of the contract is run.
C4_SetupGate ==
    \A sx \in {setupExs[k] : k \in 1..Len(setupExs)} :
        /\ mpc = "tests" => SetupNormal(sx)
        /\ ~SetupNormal(sx) =>
             /\ mpc \in {"multiple paths exist in setUp()", "setUp() failed"}
             /\ (mpc = "multiple paths exist in setUp()") <=> (Len(sx) # 1)
             /\ RanOfCurrent = {}
             /\ mainExit = -1

\* setUp() of the second contract has two paths, after the tests of the first ran
C4_Witness ==
    /\ mpc = "multiple paths exist in setUp()"
    /\ setupExs # <<>> /\ Len(setupExs[1]) = 2
    /\ ranLog # <<>>

TestKey(r) == [file |-> r.file, contract |-> r.contract, funsig |-> r.funsig]
SelectedTests ==
    UNION {UNION {{[file |-> f, contract |-> files[f].contracts[k].name,
                    funsig |-> files[f].contracts[k].ids[j]] :
                    j \in {j \in 1..Len(files[f].contracts[k].ids) :
                             startswith(files[f].contracts[k].ids[j], argFunction)}} :
                  k \in {k \in 1..Len(files[f].contracts) :
                           argContract = None \/ files[f].contracts[k].name = argContract}} :
           f \in 1..Len(files)}

\* C7: main returns 0 exactly when every selected test function passed: every
\* function whose signature starts with the prefix is run once and counted once,
\* the exit code is 0 exactly when none failed, and with no matching function
\* main raises and returns nothing.
C7_ExitCode ==
    /\ \A k1, k2 \in 1..Len(ranLog) : TestKey(ranLog[k1]) = TestKey(ranLog[k2]) => k1 = k2
    /\ {TestKey(ranLog[k]) : k \in 1..Len(ranLog)} \subseteq SelectedTests
    /\ mpc = "done" =>
         /\ {TestKey(ranLog[k]) : k \in 1..Len(ranLog)} = SelectedTests
         /\ total_passed = Cardinality({k \in 1..Len(ranLog) : ranLog[k].exitcode = 0})
         /\ total_failed = Cardinality({k \in 1..Len(ranLog) : ranLog[k].exitcode # 0})
         /\ mainExit \in {0, 1}
         /\ mainExit = 0 <=> \A k \in 1..Len(ranLog) : ranLog[k].exitcode = 0
         /\ SelectedTests # {}
    /\ SelectedTests = {} => mainExit = -1 /\ mpc \in {"contracts", "No matching tests found"}
    /\ mpc = "No matching tests found" => SelectedTests = {}

\* three tests in two contracts, the last one passed and an earlier one failed
C7_Witness ==
    /\ mpc = "done" /\ mainExit = 1 /\ Len(ranLog) >= 3
    /\ ranLog[Len(ranLog)].exitcode = 0

\* ---------------------------------------------------------------- calldata (SpecCd)
\* the types the interface lists as supported, and those it lists as rejected
SupportedType(t) ==
    /\ t.base \in {"uint256", "int8", "address", "bool", "bytes32", "bytes", "string"}
    /\ t.dims = <<>> \/ (Len(t.dims) = 1 /\ t.dims[1] >= 0)
RejectedType(t) == t.base = "tuple" \/ \E d \in 1..Len(t.dims) : t.dims[d] = Dyn
IsDynamicType(t) == t.base \in {"bytes", "string"} /\ t.dims = <<>>

\* ABI decoding of an entry: the head slots of a parameter
SlotsOf(t) == IF t.dims = <<>> THEN 1 ELSE t.dims[1]
RECURSIVE SlotsBefore(_, _)
SlotsBefore(inputs, k) ==
    IF k <= 1 THEN 0 ELSE SlotsBefore(inputs, k - 1) + SlotsOf(inputs[k - 1].type)
HeadBytes(inputs) == 32 * SlotsBefore(inputs, Len(inputs) + 1)

\* the value of the 32-byte word at loc, -1 when it is not a concrete word
RECURSIVE WordValueFrom(_, _, _)
WordValueFrom(mem, loc, i) ==
    IF i > 31 THEN 0
    ELSE IF loc + i \notin DOMAIN mem \/ mem[loc + i].name # "" THEN -1
    ELSE LET rest == WordValueFrom(mem, loc, i + 1) IN
         IF rest = -1 THEN -1
         ELSE IF 31 - i >= 3
              THEN (IF mem[loc + i].v = 0 THEN rest ELSE -1)
              ELSE mem[loc + i].v * (256 ^ (31 - i)) + rest
WordValue(mem, loc) == WordValueFrom(mem, loc, 0)

\* the n bytes at loc are the n bytes of the symbol w
HoldsSymbol(mem, loc, n, w) ==
    \A i \in 0..(n - 1) : loc + i \in DOMAIN mem /\ mem[loc + i] = SymByte(w, i)

ExpectedSize(name) == IF name \in DOMAIN arrlen THEN arrlen[name] ELSE argLoop
RoundUp32(n) == IF n % 32 = 0 THEN n ELSE n + 32 - (n % 32)

\* the byte range a parameter's tail occupies, as the head slot says
TailRange(mem, inputs, k) ==
    LET off == WordValue(mem, 4 + 32 * SlotsBefore(inputs, k)) IN
    (4 + off)..(4 + off + 32 + RoundUp32(ExpectedSize(inputs[k].name)) - 1)

DecodesParam(mem, inputs, k) ==
    LET p == inputs[k]
        head == 4 + 32 * SlotsBefore(inputs, k)
    IN  IF IsDynamicType(p.type)
        THEN LET off == WordValue(mem, head) IN
             /\ off >= HeadBytes(inputs)
             /\ WordValue(mem, 4 + off) = ExpectedSize(p.name)
             /\ HoldsSymbol(mem, 4 + off + 32, RoundUp32(ExpectedSize(p.name)),
                            Sym(p.name, -1, p.type.base))
             /\ \A j \in 1..Len(inputs) :
                  (j # k /\ IsDynamicType(inputs[j].type))
                     => TailRange(mem, inputs, k) \cap TailRange(mem, inputs, j) = {}
        ELSE IF p.type.dims = <<>>
        THEN HoldsSymbol(mem, head, 32, Sym(p.name, -1, p.type.base))
        ELSE \A e \in 0..(p.type.dims[1] - 1) :
                HoldsSymbol(mem, head + 32 * e, 32, Sym(p.name, e, p.type.base))

\* the value of bytes 0..3 (the selectors of the model are below 2^24)
SelectorValue(mem) ==
    IF \E i \in 0..3 : i \notin DOMAIN mem \/ mem[i].name # "" THEN -1
    ELSE IF mem[0].v # 0 THEN -1
    ELSE mem[1].v * 65536 + mem[2].v * 256 + mem[3].v

Decodes(mem, item) ==
    /\ SelectorValue(mem) = funselector
    /\ \A k \in 1..Len(item.inputs) : DecodesParam(mem, item.inputs, k)

OwnEntry == abi[target]
Overloaded == \E k \in 1..Len(abi) : k # target /\ ItemMatches(abi[k], funname)

\* C8: the calldata run hands to the explorer decodes, by the ABI rules, to the
\* parameters of the entry of the tested function: selector, head slots in
\* declaration order, offsets, lengths and data of the bytes/string parameters.
C8_CalldataDecodes ==
    (cdpc = "built" /\ \A k \in 1..Len(OwnEntry.inputs) : SupportedType(OwnEntry.inputs[k].type))
        => Decodes(cd, OwnEntry)

\* the layout holds when no other entry of the ABI has the name of the tested function
CalldataDecodesWithoutOverload ==
    (cdpc = "built" /\ ~Overloaded
       /\ (\A n \in DOMAIN arrlen : arrlen[n] >= 0)
       /\ \A k \in 1..Len(OwnEntry.inputs) : SupportedType(OwnEntry.inputs[k].type))
        => Decodes(cd, OwnEntry)

CalldataDecodesReached ==
    /\ cdpc = "built" /\ ~Overloaded /\ Len(OwnEntry.inputs) = 2
    /\ OwnEntry.inputs[1].type = Ty("bytes", <<>>)
    /\ OwnEntry.inputs[2].type = Ty("uint256", <<2>>)
    /\ "a" \in DOMAIN arrlen /\ arrlen["a"] = 33

\* C9: the builder raises for no parameter type of the supported set (the seven
\* base types, each also with one fixed size [K]) and raises "Not supported",
\* before the explorer runs, for every tuple and every type with a dimension [].
C9_TypesAcceptedAndRejected ==
    LET seen == {k \in 1..ai : ItemMatches(abi[k], funname)}
        types == UNION {{abi[k].inputs[j].type : j \in 1..Len(abi[k].inputs)} : k \in seen}
    IN  /\ cdpc = "raised" => \E t \in types : ~SupportedType(t)
        /\ cdpc = "raised" =>
             cdErr \in {"Not supported", "Not supported variable sized arrays"}
        /\ cdpc = "built" => \A t \in types : ~RejectedType(t)

\* what the loop of l.167-219 builds from the entry of the test's own signature
\* alone, started from the memory that holds only the selector
OwnEntryAlone ==
    BuildItem(OwnEntry, funname, wstore(<<>>, 0, 4, Con(funselector)), <<>>, arrlen, argLoop)

\* C11: the calldata handed to the explorer and the list of bounds reported for
\* the test are those built from the ABI entry of the test's own signature: no
\* other entry, an overload of the same name included, writes a byte of the
\* calldata or adds an entry to the bounds.
C11_OwnEntryOnly ==
    cdpc = "built" => /\ cd = OwnEntryAlone.cd
                      /\ dyn_param_size = OwnEntryAlone.dps

\* ---------------------------------------------------------------- the Exec of a test (SpecIso)
\* C10: a test leaves the post-setUp state as it was, and every test starts from
\* a copy of it in objects of its own, with its own solver, pc = 0, empty stack
\* and memory and empty jumpis, whatever the tests before it did.
C10_TestsIsolated ==
    /\ \A f \in Fields : heap["setup"][f] = postSetup[f]
    /\ \A e \in {tex[k] : k \in 1..Len(tex)} :
         /\ \A f \in DeepCopied \cup {"solver"} : e.refs[f] # "setup"
         /\ nsteps = 0 =>
              /\ \A f \in Fields : heap[e.refs[f]][f] = postSetup[f]
              /\ e.pc = 0 /\ e.st = <<>> /\ e.jumpis = {}

\* the second test starts after the first one changed its storage, path and solver
C10_Witness ==
    /\ testNo = 2 /\ ipc = "running" /\ nsteps = MaxSteps
    /\ heap["test"]["storage"] # postSetup["storage"]
    /\ postSetup["storage"] # <<>>

====
